---------------------------- MODULE Spec2Model ----------------------------
(***************************************************************************)
(* Model of pcs_scraper/utils.py: the string/number validators, the URL    *)
(* pattern table `reg`, the table field selector and the date/time         *)
(* converters.  Every function of the module is pure, so each one is       *)
(* modelled as an operator computed the way the Python code computes it,   *)
(* and is exercised by a specification whose initial states draw the       *)
(* arguments from bounded sets and whose single action performs the call.  *)
(* Python strings are TLA+ strings; indices in the operators below are     *)
(* Python's 0-based indices.                                               *)
(***************************************************************************)
EXTENDS Integers, Sequences, FiniteSets, TLC

VARIABLES pc,    \* "call" before the function body has run, "done" after
          args,  \* the arguments of the call (a record)
          ret    \* the outcome: [kind |-> "return", val |-> v] or
                 \*              [kind |-> "raise", exc |-> e, val |-> v]

vars == <<pc, args, ret>>

Pending == [kind |-> "pending"]
Return(v) == [kind |-> "return", val |-> v]
Raise(e, v) == [kind |-> "raise", exc |-> e, val |-> v]

-----------------------------------------------------------------------------
(* Python string primitives used by utils.py *)

Min(a, b) == IF a < b THEN a ELSE b
Max(a, b) == IF a > b THEN a ELSE b

\* s[i] for 0 <= i < len(s)
CharAt(s, i) == SubSeq(s, i + 1, i + 1)

\* a slice bound as Python normalises it: negative counts from the end,
\* everything is clamped to 0..len(s)
SliceIndex(s, k) == IF k < 0 THEN Max(0, Len(s) + k) ELSE Min(k, Len(s))

\* s[lo:hi]
Slice(s, lo, hi) == SubSeq(s, SliceIndex(s, lo) + 1, SliceIndex(s, hi))

DigitChars == {"0", "1", "2", "3", "4", "5", "6", "7", "8", "9"}

\* str.isnumeric(): non-empty and every character numeric
isnumeric(s) ==
    /\ Len(s) > 0
    /\ \A i \in 0 .. Len(s) - 1 : CharAt(s, i) \in DigitChars

\* index of the first occurrence of the one-character separator sep in s at
\* or after position i, or len(s) when there is none
RECURSIVE Find(_, _, _)
Find(s, sep, i) ==
    IF i >= Len(s) THEN Len(s)
    ELSE IF CharAt(s, i) = sep THEN i
    ELSE Find(s, sep, i + 1)

\* s.split(sep) for a one-character separator: a sequence of strings
RECURSIVE split(_, _)
split(s, sep) ==
    LET k == Find(s, sep, 0) IN
    IF k = Len(s) THEN <<s>>
    ELSE <<Slice(s, 0, k)>> \o split(Slice(s, k + 1, Len(s)), sep)

\* sep.join(parts)
RECURSIVE join(_, _)
join(sep, parts) ==
    IF Len(parts) = 0 THEN ""
    ELSE IF Len(parts) = 1 THEN parts[1]
    ELSE parts[1] \o sep \o join(sep, Tail(parts))

\* the ASCII characters of codes 32..95 and of codes 97..126, in code order
AsciiLow == " !\"#$%&'()*+,-./0123456789:;<=>?@ABCDEFGHIJKLMNOPQRSTUVWXYZ[\\]^_"
AsciiHigh == "abcdefghijklmnopqrstuvwxyz{|}~"

\* chr(n) for the codes above
Chr(n) == IF n < 96 THEN CharAt(AsciiLow, n - 32) ELSE CharAt(AsciiHigh, n - 97)

AsciiCodes == (32 .. 95) \cup (97 .. 126)

\* ord(c) of one of these characters
Ord(c) == CHOOSE n \in AsciiCodes : Chr(n) = c

\* int(s) for a string of decimal digits
RECURSIVE int(_)
int(s) ==
    IF Len(s) = 0 THEN 0
    ELSE 10 * int(Slice(s, 0, Len(s) - 1)) + (Ord(CharAt(s, Len(s) - 1)) - 48)

\* str(n) for an integer n >= 0
RECURSIVE str(_)
str(n) ==
    IF n < 10 THEN CharAt("0123456789", n)
    ELSE str(n \div 10) \o CharAt("0123456789", n % 10)

\* Optional values: None and a present value
NoneValue == [isNone |-> TRUE]
Some(v) == [isNone |-> FALSE, v |-> v]

\* math.inf, above every length and number the model uses
inf == 1000000

-----------------------------------------------------------------------------
(* the `re` module: parsing of a pattern and re.fullmatch *)

\* a parsed pattern node; hi = -1 means no upper bound
Node(kind, chars, subs, lo, hi) ==
    [kind |-> kind, chars |-> chars, subs |-> subs, lo |-> lo, hi |-> hi]
SetNode(chars) == Node("set", chars, <<>>, 1, 1)
AnyNode == Node("any", {}, <<>>, 1, 1)
SeqNode(subs) == Node("seq", {}, subs, 1, 1)
AltNode(subs) == Node("alt", {}, subs, 1, 1)
RepNode(sub, lo, hi) == Node("rep", {}, <<sub>>, lo, hi)

Parsed(node, pos) == [node |-> node, pos |-> pos]

\* the characters lo..hi of a class range such as a-z
CharRange(lo, hi) ==
    {Chr(n) : n \in (Ord(lo) .. Ord(hi)) \cap AsciiCodes}

\* the members of a character class, body being the text between [ and ]
RECURSIVE ClassChars(_)
ClassChars(body) ==
    IF Len(body) = 0 THEN {}
    ELSE IF Len(body) >= 3 /\ CharAt(body, 1) = "-"
    THEN CharRange(CharAt(body, 0), CharAt(body, 2))
             \cup ClassChars(Slice(body, 3, Len(body)))
    ELSE {CharAt(body, 0)} \cup ClassChars(Slice(body, 1, Len(body)))

RECURSIVE ParseAlt(_, _)
RECURSIVE ParseAltRest(_, _, _)
RECURSIVE ParseSeq(_, _, _)
RECURSIVE ParseItem(_, _)
RECURSIVE ParseAtom(_, _)

\* an optional quantifier * + ? {n} {n,m} after the atom ending at i
ParseQuant(p, i, node) ==
    IF i >= Len(p) THEN Parsed(node, i)
    ELSE LET c == CharAt(p, i) IN
         IF c = "*" THEN Parsed(RepNode(node, 0, -1), i + 1)
         ELSE IF c = "+" THEN Parsed(RepNode(node, 1, -1), i + 1)
         ELSE IF c = "?" THEN Parsed(RepNode(node, 0, 1), i + 1)
         ELSE IF c = "{"
         THEN LET close == Find(p, "}", i)
                  parts == split(Slice(p, i + 1, close), ",")
                  lo == int(parts[1])
                  hi == IF Len(parts) = 1 THEN lo ELSE int(parts[2])
              IN Parsed(RepNode(node, lo, hi), close + 1)
         ELSE Parsed(node, i)

\* a group, a class, an escape, the dot or a literal character at i
ParseAtom(p, i) ==
    LET c == CharAt(p, i) IN
    IF c = "("
    THEN LET inner == ParseAlt(p, i + 1) IN Parsed(inner.node, inner.pos + 1)
    ELSE IF c = "["
    THEN LET close == Find(p, "]", i + 1)
         IN Parsed(SetNode(ClassChars(Slice(p, i + 1, close))), close + 1)
    ELSE IF c = "\\"
    THEN LET e == CharAt(p, i + 1)
         IN Parsed(IF e = "d" THEN SetNode(DigitChars) ELSE SetNode({e}), i + 2)
    ELSE IF c = "." THEN Parsed(AnyNode, i + 1)
    ELSE Parsed(SetNode({c}), i + 1)

ParseItem(p, i) ==
    LET a == ParseAtom(p, i) IN ParseQuant(p, a.pos, a.node)

\* a concatenation: items up to the end, a | or a )
ParseSeq(p, i, items) ==
    IF i >= Len(p) \/ CharAt(p, i) \in {"|", ")"}
    THEN Parsed(SeqNode(items), i)
    ELSE LET it == ParseItem(p, i)
         IN ParseSeq(p, it.pos, Append(items, it.node))

ParseAltRest(p, i, branches) ==
    IF i < Len(p) /\ CharAt(p, i) = "|"
    THEN LET nx == ParseSeq(p, i + 1, <<>>)
         IN ParseAltRest(p, nx.pos, Append(branches, nx.node))
    ELSE Parsed(AltNode(branches), i)

\* an alternation of concatenations starting at i
ParseAlt(p, i) ==
    LET first == ParseSeq(p, i, <<>>)
    IN ParseAltRest(p, first.pos, <<first.node>>)

\* re.compile(pattern)
compile(pattern) == ParseAlt(pattern, 0).node

RECURSIVE MatchEnds(_, _, _)
RECURSIVE SeqEnds(_, _, _, _)
RECURSIVE RepEnds(_, _, _, _, _, _)

\* the positions where a match of the concatenation subs[k..] can end when
\* it starts at one of the positions of from
SeqEnds(subs, k, s, from) ==
    IF k > Len(subs) THEN from
    ELSE SeqEnds(subs, k + 1, s,
                 UNION {MatchEnds(subs[k], s, i) : i \in from})

\* the positions reachable after count or more repetitions of sub, from
\* being the positions reached after exactly count repetitions
RepEnds(sub, lo, hi, s, from, count) ==
    (IF count >= lo THEN from ELSE {})
    \cup (IF /\ from # {}
             /\ (hi = -1 \/ count < hi)
             /\ count <= lo + Len(s)
          THEN RepEnds(sub, lo, hi, s,
                       UNION {MatchEnds(sub, s, i) : i \in from}, count + 1)
          ELSE {})

\* the positions where a match of node that starts at position i can end
MatchEnds(node, s, i) ==
    IF node.kind = "set"
    THEN IF i < Len(s) /\ CharAt(s, i) \in node.chars THEN {i + 1} ELSE {}
    ELSE IF node.kind = "any"
    THEN IF i < Len(s) /\ CharAt(s, i) # "\n" THEN {i + 1} ELSE {}
    ELSE IF node.kind = "seq" THEN SeqEnds(node.subs, 1, s, {i})
    ELSE IF node.kind = "alt"
    THEN UNION {MatchEnds(node.subs[k], s, i) : k \in 1 .. Len(node.subs)}
    ELSE RepEnds(node.subs[1], node.lo, node.hi, s, {i}, 0)

\* re.fullmatch(pattern, string) is not None
fullmatch(pattern, string) ==
    Len(string) \in MatchEnds(compile(pattern), string, 0)

-----------------------------------------------------------------------------
(* get_day_month *)

\* number of iterations of `for i, char in enumerate(str_with_date[:-4])`
day_month_loop_len_short(str_with_date) == Len(Slice(str_with_date, 0, -5))
day_month_loop_len(str_with_date) == Len(Slice(str_with_date, 0, -4))

\* the unpacking `[day, month] = window.split(sep)`; dm is <<day, month>>
day_month_unpack(window, sep, dm) ==
    LET parts == split(window, sep) IN
    IF Len(parts) = 2 THEN <<parts[1], parts[2]>> ELSE dm

\* a loop body that keeps the pair once one has been assigned
day_month_step_keep_first(str_with_date, i, dm) ==
    IF dm # <<"", "">> THEN dm
    ELSE IF /\ isnumeric(Slice(str_with_date, i, i + 2))
            /\ isnumeric(Slice(str_with_date, i + 3, i + 5))
    THEN IF CharAt(str_with_date, i + 2) = "/"
         THEN day_month_unpack(Slice(str_with_date, i, i + 5), "/", dm)
         ELSE IF CharAt(str_with_date, i + 2) = "-"
         THEN day_month_unpack(Slice(str_with_date, i, i + 5), "-", dm)
         ELSE dm
    ELSE dm

\* one iteration of the loop body at index i
day_month_step(str_with_date, i, dm) ==
    IF /\ isnumeric(Slice(str_with_date, i, i + 2))
       /\ isnumeric(Slice(str_with_date, i + 3, i + 5))
    THEN IF CharAt(str_with_date, i + 2) = "/"
         THEN day_month_unpack(Slice(str_with_date, i, i + 5), "/", dm)
         ELSE IF CharAt(str_with_date, i + 2) = "-"
         THEN day_month_unpack(Slice(str_with_date, i, i + 5), "-", dm)
         ELSE dm
    ELSE dm

\* the loop from index i on; there is no break, every index is visited
RECURSIVE day_month_scan(_, _, _)
day_month_scan(str_with_date, i, dm) ==
    IF i >= day_month_loop_len(str_with_date) THEN dm
    ELSE day_month_scan(str_with_date, i + 1,
                        day_month_step(str_with_date, i, dm))

get_day_month(str_with_date) ==
    LET dm == day_month_scan(str_with_date, 0, <<"", "">>) IN
    IF isnumeric(dm[1]) /\ isnumeric(dm[2])
    THEN Return(dm)
    ELSE Raise("ValueError",
               "Given string doesn't contain day and month in wanted format")

\* input strings: every string over DateAlphabet of length <= MaxDateLen
MaxDateLen == 6
DateAlphabet == {"1", "2", "/", "-", "a"}

\* longer strings over fewer characters, so that two windows fit
MaxMultiLen == 8
MultiAlphabet == {"1", "2", "/", "-"}

RECURSIVE StringsOfLen(_, _)
StringsOfLen(alphabet, n) ==
    IF n = 0 THEN {""}
    ELSE {p \o c : p \in StringsOfLen(alphabet, n - 1), c \in alphabet}

StringsUpTo(alphabet, n) == UNION {StringsOfLen(alphabet, k) : k \in 0 .. n}

CallGetDayMonth ==
    /\ pc = "call"
    /\ args.fn = "get_day_month"
    /\ ret' = get_day_month(args.str_with_date)
    /\ pc' = "done"
    /\ UNCHANGED args

InitDayMonth ==
    /\ pc = "call"
    /\ ret = Pending
    /\ \E s \in StringsUpTo(DateAlphabet, MaxDateLen) :
           args = [fn |-> "get_day_month", str_with_date |-> s]

NextDayMonth == CallGetDayMonth

SpecDayMonth == InitDayMonth /\ [][NextDayMonth]_vars

InitDayMonthMulti ==
    /\ pc = "call"
    /\ ret = Pending
    /\ \E s \in StringsUpTo(MultiAlphabet, MaxMultiLen) :
           args = [fn |-> "get_day_month", str_with_date |-> s]

SpecDayMonthMulti == InitDayMonthMulti /\ [][NextDayMonth]_vars

\* a 5-character window DD/MM or DD-MM starts at index i of s
IsDateWindow(s, i) ==
    /\ 0 <= i /\ i + 5 <= Len(s)
    /\ CharAt(s, i) \in DigitChars /\ CharAt(s, i + 1) \in DigitChars
    /\ CharAt(s, i + 2) \in {"/", "-"}
    /\ CharAt(s, i + 3) \in DigitChars /\ CharAt(s, i + 4) \in DigitChars

DateWindows(s) == {i \in 0 .. Len(s) - 5 : IsDateWindow(s, i)}

WindowPair(s, i) == <<Slice(s, i, i + 2), Slice(s, i + 3, i + 5)>>

FirstWindow(s) == CHOOSE i \in DateWindows(s) : \A j \in DateWindows(s) : i <= j
LastWindow(s) == CHOOSE i \in DateWindows(s) : \A j \in DateWindows(s) : j <= i

DayMonthDone == pc = "done" /\ args.fn = "get_day_month"

\* C1 (as stated): whenever the input has a DD/MM or DD-MM window, the pair
\* returned is the one of the window with the smallest start index.
C1_FirstWindowReturned ==
    (DayMonthDone /\ DateWindows(args.str_with_date) # {})
        => ret = Return(WindowPair(args.str_with_date,
                                   FirstWindow(args.str_with_date)))

\* C1 (amended): whenever the input has a DD/MM or DD-MM window, the pair
\* returned is the one of the window with the largest start index: the scan
\* does not stop at a match and a later window overwrites an earlier one.
C1_LastWindowReturned ==
    (DayMonthDone /\ DateWindows(args.str_with_date) # {})
        => ret = Return(WindowPair(args.str_with_date,
                                   LastWindow(args.str_with_date)))

\* C1 witness: a call on a string with two windows holding different pairs
\* has returned the pair of the later one.
C1_Witness ==
    /\ DayMonthDone
    /\ Cardinality(DateWindows(args.str_with_date)) >= 2
    /\ WindowPair(args.str_with_date, FirstWindow(args.str_with_date))
         # WindowPair(args.str_with_date, LastWindow(args.str_with_date))
    /\ ret = Return(WindowPair(args.str_with_date,
                               LastWindow(args.str_with_date)))

\* C8: get_day_month raises ValueError exactly when the input has no DD/MM
\* or DD-MM window (so for every string shorter than 5 characters), and
\* whenever it returns both parts are exactly two numeric characters.
C8_RaisesIffNoWindow ==
    DayMonthDone =>
        /\ ret.kind \in {"return", "raise"}
        /\ (ret.kind = "raise") <=> (DateWindows(args.str_with_date) = {})
        /\ ret.kind = "raise" => ret.exc = "ValueError"
        /\ Len(args.str_with_date) < 5 => ret.kind = "raise"
        /\ ret.kind = "return" =>
              /\ Len(ret.val) = 2
              /\ Len(ret.val[1]) = 2 /\ isnumeric(ret.val[1])
              /\ Len(ret.val[2]) = 2 /\ isnumeric(ret.val[2])

\* C8 witness: a call on a string whose only window is its last five
\* characters has returned.
C8_Witness ==
    /\ DayMonthDone
    /\ Len(args.str_with_date) > 5
    /\ DateWindows(args.str_with_date) = {Len(args.str_with_date) - 5}
    /\ ret.kind = "return"

\* a call on a string of five or more characters without a window has raised
C8_WitnessRaise ==
    /\ DayMonthDone
    /\ args.str_with_date = "11a11/"
    /\ ret.kind = "raise"

-----------------------------------------------------------------------------
(* class reg: the URL pattern table *)

reg_base_url == "(https:\\/\\/www.procyclingstats.com\\/+)"
reg_url_str == "(\\/+([a-zA-Z]+-)*([a-zA-Z]+))"
reg_year == "(\\/+\\d{4})"
reg_stage == "(\\/+(((stage-([1-9]([0-9])?([a-z])?)|prologue)"
             \o "(\\/gc|-points|-kom|-youth|-teams)?)|gc))"
reg_result == "(\\/+result)"
reg_overview == "(\\/+overview)"
reg_startlist == "(\\/+startlist)"
reg_team_url_str == "(\\/(([a-zA-Z0-9]+-)+)\\d{4,5})"
reg_anything == "(\\/+.*)"

\* the attributes of reg that describe a URL segment
SegmentNames == {"url_str", "year", "stage", "result", "overview",
                 "startlist", "team_url_str", "anything"}

\* getattr(reg, name)
reg(name) ==
    CASE name = "base_url" -> reg_base_url
      [] name = "url_str" -> reg_url_str
      [] name = "year" -> reg_year
      [] name = "stage" -> reg_stage
      [] name = "result" -> reg_result
      [] name = "overview" -> reg_overview
      [] name = "startlist" -> reg_startlist
      [] name = "team_url_str" -> reg_team_url_str
      [] name = "anything" -> reg_anything

\* candidate segments: up to MaxSlashes leading separators before a body
MaxSlashes == 3
\* the number of separators put in front of a candidate, up to MaxExtra
MaxExtra == 2

SegmentBodies ==
    {"", "abc", "This-is-url-StriNg", "abc-", "ab1", "2022", "202", "20222",
     "202222", "stage-20", "stage-20/gc", "stage-1a-kom", "stage-0",
     "stage-20//gc", "prologue", "prologue-youth", "prologue-gc", "gc",
     "result", "results", "overview", "startlist", "bora-hansgrohe-2022",
     "movistar-team-20152", "team-202", "2022-2022", "a/b",
     "ffefwf//fwefw/aa", "x y"}

RECURSIVE Slashes(_)
Slashes(k) == IF k = 0 THEN "" ELSE "/" \o Slashes(k - 1)

Segments == {Slashes(k) \o b : k \in 0 .. MaxSlashes, b \in SegmentBodies}

\* a URL parser matching a segment, and the segment behind extra
\* separators, against one fragment of the table
CallRegFullmatch ==
    /\ pc = "call"
    /\ args.fn = "reg"
    /\ ret' = Return([match |-> fullmatch(reg(args.name), args.string),
                      prefixed |-> fullmatch(reg(args.name),
                                             Slashes(args.extra)
                                                 \o args.string)])
    /\ pc' = "done"
    /\ UNCHANGED args

InitReg ==
    /\ pc = "call"
    /\ ret = Pending
    /\ \E name \in SegmentNames, string \in Segments, extra \in 1 .. MaxExtra :
           args = [fn |-> "reg", name |-> name, string |-> string,
                   extra |-> extra]

NextReg == CallRegFullmatch

SpecReg == InitReg /\ [][NextReg]_vars

RegDone == pc = "done" /\ args.fn = "reg"

\* C10: for every URL-segment fragment, a fully matching string starts with
\* '/', and a matching segment still matches behind additional '/'
\* characters.
C10_AnchoredOneOrMore ==
    (RegDone /\ ret.val.match) =>
        /\ Len(args.string) > 0 /\ CharAt(args.string, 0) = "/"
        /\ ret.val.prefixed

-----------------------------------------------------------------------------
(* validate_string *)

\* bool(x) of an Optional list or string argument: None and empty are falsy
Truthy(x) == ~x.isNone /\ Len(x.v) > 0

\* `string not in options` for a list of strings
NotIn(string, options) ==
    \A k \in 1 .. Len(options) : string.isNone \/ options[k] # string.v

\* a pattern passed to re.fullmatch as it was given
format_regex_unstripped(regex) == regex

\* "".join([char for char in regex if char not in ("\n", " ")])
RECURSIVE format_regex(_)
format_regex(regex) ==
    IF Len(regex) = 0 THEN ""
    ELSE (IF CharAt(regex, 0) \in {"\n", " "} THEN "" ELSE CharAt(regex, 0))
             \o format_regex(Slice(regex, 1, Len(regex)))

\* the `raise` at the end of both validators
raise_invalid(value, error) ==
    IF error.isNone THEN Raise("ParsedValueInvalidError", value)
    ELSE Raise(error.v, value)

\* len(string) < min_length or len(string) > max_length
length_invalid(string, min_length, max_length) ==
    Len(string.v) < min_length \/ Len(string.v) > max_length

validate_string(string, min_length, max_length, regex, options, can_be_none, error) ==
    LET valid1 == ~(~can_be_none /\ string.isNone)
        valid2 == valid1 /\ ~(Truthy(options) /\ NotIn(string, options.v))
    IN
    \* len(None) raises TypeError before `valid` is looked at
    IF string.isNone
    THEN Raise("TypeError", "object of type 'NoneType' has no len()")
    ELSE LET valid3 == valid2 /\ ~length_invalid(string, min_length, max_length)
             valid4 == IF regex # ""
                       THEN valid3 /\ fullmatch(format_regex(regex), string.v)
                       ELSE valid3
         IN IF ~valid4 THEN raise_invalid(string, error)
            ELSE Return(NoneValue)

\* argument values: every string over StringAlphabet of length <= MaxStrLen
MaxStrLen == 3
StringAlphabet == {"a", "b"}
\* min_length and max_length range over 0 .. MaxLengthArg and math.inf
MaxLengthArg == 2

RegexArgs == {"", "a+", "a +\n", " ", "(a|b)b", "a b", ".*"}
OptionsArgs == {NoneValue, Some(<<>>), Some(<<"a">>), Some(<<"ab", "b">>)}
ErrorArgs == {NoneValue, Some("CustomError")}

\* the strings each sample pattern is meant to accept, blanks ignored
RegexLanguage(regex) ==
    CASE regex = "a+" -> {"a", "aa", "aaa", "aaaa"}
      [] regex = "a +\n" -> {"a", "aa", "aaa", "aaaa"}
      [] regex = " " -> {""}
      [] regex = "(a|b)b" -> {"ab", "bb"}
      [] regex = "a b" -> {"ab"}
      [] regex = ".*" -> StringsUpTo(StringAlphabet, MaxStrLen + 1)

CallValidateString ==
    /\ pc = "call"
    /\ args.fn = "validate_string"
    /\ ret' = validate_string(args.string, args.min_length, args.max_length,
                              args.regex, args.options, args.can_be_none,
                              args.error)
    /\ pc' = "done"
    /\ UNCHANGED args

InitValidateString ==
    /\ pc = "call"
    /\ ret = Pending
    /\ \E string \in {NoneValue}
                     \cup {Some(v) : v \in StringsUpTo(StringAlphabet, MaxStrLen)},
          min_length \in 0 .. MaxLengthArg,
          max_length \in (0 .. MaxLengthArg) \cup {inf},
          regex \in RegexArgs, options \in OptionsArgs,
          can_be_none \in BOOLEAN, error \in ErrorArgs :
           args = [fn |-> "validate_string", string |-> string,
                   min_length |-> min_length, max_length |-> max_length,
                   regex |-> regex, options |-> options,
                   can_be_none |-> can_be_none, error |-> error]

NextValidateString == CallValidateString

SpecValidateString == InitValidateString /\ [][NextValidateString]_vars

ValidateStringDone == pc = "done" /\ args.fn = "validate_string"

\* the outcome the validators document for an invalid value
IsInvalidValue(r, value, error) ==
    /\ r.kind = "raise"
    /\ r.exc = (IF error.isNone THEN "ParsedValueInvalidError" ELSE error.v)
    /\ error.isNone => r.val = value

\* C2: validate_string on None with can_be_none false fails with the
\* InvalidValue error (ParsedValueInvalidError or the caller's error), never
\* with a type error.
C2_NoneRaisesInvalidValue ==
    (ValidateStringDone /\ args.string.isNone /\ ~args.can_be_none)
        => IsInvalidValue(ret, args.string, args.error)

\* the declared constraints on a non-null string; an allowed list counts as
\* given when it is passed (not None), a regex when it is not empty
LengthOk == /\ Len(args.string.v) >= args.min_length
            /\ Len(args.string.v) <= args.max_length
RegexOk == args.regex # "" => args.string.v \in RegexLanguage(args.regex)
MemberOf(options) == \E k \in 1 .. Len(options) : options[k] = args.string.v

\* C7 (as stated): a non-null string is accepted exactly when its length is
\* within the bounds, it is a member of the allowed list when one is given
\* and it matches the regex when one is given; otherwise the caller's error
\* or ParsedValueInvalidError carrying the string is raised.
C7_AcceptsExactlyValid ==
    (ValidateStringDone /\ ~args.string.isNone) =>
        IF /\ LengthOk
           /\ RegexOk
           /\ ~args.options.isNone => MemberOf(args.options.v)
        THEN ret = Return(NoneValue)
        ELSE IsInvalidValue(ret, args.string, args.error)

\* C7 (amended): as C7, the membership constraint applying when a non-empty
\* allowed list is given; an empty list constrains nothing, like None.
C7_AcceptsExactlyValidNonEmptyOptions ==
    (ValidateStringDone /\ ~args.string.isNone) =>
        IF /\ LengthOk
           /\ RegexOk
           /\ (~args.options.isNone /\ Len(args.options.v) > 0)
                 => MemberOf(args.options.v)
        THEN ret = Return(NoneValue)
        ELSE IsInvalidValue(ret, args.string, args.error)

\* C7 witness: with an empty allowed list given, a string that meets the
\* length bounds and matches the regex only once the blanks of the pattern
\* are stripped was accepted.
C7_Witness ==
    /\ ValidateStringDone
    /\ args.string = Some("aa")
    /\ args.regex = "a +\n"
    /\ args.max_length = 2
    /\ args.min_length = 2
    /\ args.options = Some(<<>>)
    /\ ret = Return(NoneValue)

-----------------------------------------------------------------------------
(* validate_number *)

\* `number > max_ or number < min_`
out_of_range(number, min_, max_) == number.v > max_ \/ number.v < min_

validate_number(number, min_, max_, can_be_none, error) ==
    LET valid1 == ~(~can_be_none /\ number.isNone) IN
    \* None > max_ raises TypeError before `valid` is looked at
    IF number.isNone
    THEN Raise("TypeError",
               "'>' not supported between instances of 'NoneType' and 'float'")
    ELSE IF ~(valid1 /\ ~out_of_range(number, min_, max_))
    THEN raise_invalid(number, error)
    ELSE Return(NoneValue)

\* numbers and finite limits range over -MaxNumber .. MaxNumber
MaxNumber == 2

CallValidateNumber ==
    /\ pc = "call"
    /\ args.fn = "validate_number"
    /\ ret' = validate_number(args.number, args.min_, args.max_,
                              args.can_be_none, args.error)
    /\ pc' = "done"
    /\ UNCHANGED args

InitValidateNumber ==
    /\ pc = "call"
    /\ ret = Pending
    /\ \E number \in {NoneValue} \cup {Some(v) : v \in -MaxNumber .. MaxNumber},
          min_ \in (-MaxNumber .. MaxNumber) \cup {-inf},
          max_ \in (-MaxNumber .. MaxNumber) \cup {inf},
          can_be_none \in BOOLEAN, error \in ErrorArgs :
           args = [fn |-> "validate_number", number |-> number,
                   min_ |-> min_, max_ |-> max_,
                   can_be_none |-> can_be_none, error |-> error]

NextValidateNumber == CallValidateNumber

SpecValidateNumber == InitValidateNumber /\ [][NextValidateNumber]_vars

ValidateNumberDone == pc = "done" /\ args.fn = "validate_number"

\* C6: validate_number on None returns normally when can_be_none is true
\* and fails with the InvalidValue error (or the caller's error) when it is
\* false; the min/max comparison never surfaces as another error.
C6_NoneFollowsNullability ==
    (ValidateNumberDone /\ args.number.isNone) =>
        IF args.can_be_none THEN ret = Return(NoneValue)
        ELSE IsInvalidValue(ret, args.number, args.error)

-----------------------------------------------------------------------------
(* parse_table_fields_args *)

\* `arg in available_fields` for a tuple of names
In(arg, available_fields) ==
    \E k \in 1 .. Len(available_fields) : available_fields[k] = arg

\* a check that only looks at the first requested name
has_invalid_arg_first_only(args_, available_fields) ==
    Len(args_) > 0 /\ ~In(args_[1], available_fields)

\* the loop `for arg in args: if arg not in available_fields: raise`
has_invalid_arg(args_, available_fields) ==
    \E k \in 1 .. Len(args_) : ~In(args_[k], available_fields)

parse_table_fields_args(args_, available_fields) ==
    IF has_invalid_arg(args_, available_fields)
    THEN Raise("ValueError", "Invalid field argument")
    ELSE IF Len(args_) > 0 THEN Return(args_)
    ELSE Return(available_fields)

\* requested names: tuples over FieldNames of length <= MaxArgs
MaxArgs == 2
FieldNames == {"a", "b", "c", "x"}
LegalNames == {"a", "b", "c"}

RECURSIVE TuplesOfLen(_, _)
TuplesOfLen(names, n) ==
    IF n = 0 THEN {<<>>}
    ELSE {Append(t, x) : t \in TuplesOfLen(names, n - 1), x \in names}

TuplesUpTo(names, n) == UNION {TuplesOfLen(names, k) : k \in 0 .. n}

\* the legal names of a table: tuples over LegalNames without repetition
AvailableFieldsArgs ==
    {t \in TuplesUpTo(LegalNames, Cardinality(LegalNames)) :
        \A i, j \in 1 .. Len(t) : i # j => t[i] # t[j]}

CallParseTableFieldsArgs ==
    /\ pc = "call"
    /\ args.fn = "parse_table_fields_args"
    /\ ret' = parse_table_fields_args(args.args, args.available_fields)
    /\ pc' = "done"
    /\ UNCHANGED args

InitFields ==
    /\ pc = "call"
    /\ ret = Pending
    /\ \E a \in TuplesUpTo(FieldNames, MaxArgs), f \in AvailableFieldsArgs :
           args = [fn |-> "parse_table_fields_args", args |-> a,
                   available_fields |-> f]

NextFields == CallParseTableFieldsArgs

SpecFields == InitFields /\ [][NextFields]_vars

FieldsDone == pc = "done" /\ args.fn = "parse_table_fields_args"

Elements(t) == {t[k] : k \in 1 .. Len(t)}

\* C9: parse_table_fields_args raises ValueError and returns nothing when a
\* requested name is not in available_fields; otherwise it returns the
\* requested names in the order requested when any was given, and all
\* available fields in their own order when none was.
C9_FieldSelection ==
    FieldsDone =>
        IF ~(Elements(args.args) \subseteq Elements(args.available_fields))
        THEN ret.kind = "raise" /\ ret.exc = "ValueError"
        ELSE IF args.args # <<>> THEN ret = Return(args.args)
        ELSE ret = Return(args.available_fields)

\* C9 witness: a call whose second requested name is illegal has raised
\* (the other two cases are C9_WitnessRequested and C9_WitnessAll).
C9_Witness ==
    /\ FieldsDone
    /\ args.args = <<"b", "x">>
    /\ args.available_fields = <<"a", "b", "c">>
    /\ ret.kind = "raise"

C9_WitnessRequested ==
    /\ FieldsDone
    /\ args.args = <<"c", "a">>
    /\ args.available_fields = <<"a", "b", "c">>
    /\ ret = Return(<<"c", "a">>)

C9_WitnessAll ==
    /\ FieldsDone
    /\ args.args = <<>>
    /\ args.available_fields = <<"b", "a", "c">>
    /\ ret = Return(<<"b", "a", "c">>)

-----------------------------------------------------------------------------
(* format_time *)

\* parts[lo:] for a list, lo negative
ListTail(parts, lo) == SubSeq(parts, Max(0, Len(parts) + lo) + 1, Len(parts))

\* the body of `for i, time_val in enumerate(time[-2:])`: the index i counts
\* within the slice and is used as an index of the whole list
format_time_step(time, i, time_val) ==
    IF Len(time_val) = 1 THEN [time EXCEPT ![i + 1] = "0" \o time_val]
    ELSE time

RECURSIVE format_time_loop(_, _, _)
format_time_loop(time, last2, i) ==
    IF i >= Len(last2) THEN time
    ELSE format_time_loop(format_time_step(time, i, last2[i + 1]), last2, i + 1)

format_time(time_) ==
    LET time0 == split(time_, ":")
        time == format_time_loop(time0, ListTail(time0, -2), 0)
        time_str == join(":", time)
    IN IF Len(time) = 2 THEN "0:" \o time_str ELSE time_str

\* inputs: 1 .. MaxComponents components out of TimeComponents
MaxComponents == 3
TimeComponents == {"0", "5", "9", "05", "12", "30", "45", "59"}

TimeInputs ==
    {join(":", t) : t \in UNION {TuplesOfLen(TimeComponents, k) :
                                     k \in 1 .. MaxComponents}}

CallFormatTime ==
    /\ pc = "call"
    /\ args.fn = "format_time"
    /\ ret' = Return(format_time(args.time))
    /\ pc' = "done"
    /\ UNCHANGED args

InitFormatTime ==
    /\ pc = "call"
    /\ ret = Pending
    /\ \E t \in TimeInputs : args = [fn |-> "format_time", time |-> t]

NextFormatTime == CallFormatTime

SpecFormatTime == InitFormatTime /\ [][NextFormatTime]_vars

FormatTimeDone == pc = "done" /\ args.fn = "format_time"

\* a component zero-padded to two digits
Padded(c) == IF Len(c) = 1 THEN "0" \o c ELSE c

\* C3: format_time pads only minutes and seconds: h:m:s gives h unchanged
\* followed by m and s padded to two digits, and m:s gives "0:" followed by
\* the padded m and s.
C3_PadsMinutesAndSeconds ==
    FormatTimeDone =>
        LET c == split(args.time, ":") IN
        /\ Len(c) = 3 =>
              ret.val = c[1] \o ":" \o Padded(c[2]) \o ":" \o Padded(c[3])
        /\ Len(c) = 2 =>
              ret.val = "0:" \o Padded(c[1]) \o ":" \o Padded(c[2])

-----------------------------------------------------------------------------
(* datetime.timedelta, as far as utils.py uses it *)

\* a duration of total seconds, normalised to days and 0 <= seconds < 86400
timedelta_of_seconds(total) ==
    [days |-> total \div 86400, seconds |-> total % 86400]

\* datetime.timedelta(hours=hours, minutes=minutes, seconds=seconds)
timedelta(hours, minutes, seconds) ==
    timedelta_of_seconds(hours * 3600 + minutes * 60 + seconds)

\* an addition that loses the carry of the seconds into the days
timedelta_add_no_carry(tdelta1, tdelta2) ==
    [days |-> tdelta1.days + tdelta2.days,
     seconds |-> (tdelta1.seconds + tdelta2.seconds) % 86400]

\* tdelta1 + tdelta2
timedelta_add(tdelta1, tdelta2) ==
    timedelta_of_seconds((tdelta1.days + tdelta2.days) * 86400
                             + tdelta1.seconds + tdelta2.seconds)

\* "%02d" % n
Format02d(n) == IF n < 10 THEN "0" \o str(n) ELSE str(n)

\* str(tdelta): "H:MM:SS", behind "D day, " or "D days, " when days # 0
timedelta_str(tdelta) ==
    LET ss == tdelta.seconds % 60
        mm == (tdelta.seconds \div 60) % 60
        hh == (tdelta.seconds \div 60) \div 60
        s == str(hh) \o ":" \o Format02d(mm) \o ":" \o Format02d(ss)
    IN IF tdelta.days # 0
       THEN str(tdelta.days)
                \o (IF tdelta.days # 1 THEN " days, " ELSE " day, ") \o s
       ELSE s

-----------------------------------------------------------------------------
(* timedelta_to_time, time_to_timedelta, add_time *)

\* the day component taken as one more hour each
fold_days_as_hours(hours, days) == int(hours) + int(days)

\* int(time.split(":")[0]) + (24 * int(days))
fold_days(hours, days) == int(hours) + (24 * int(days))

timedelta_to_time(tdelta) ==
    LET time == split(timedelta_str(tdelta), " ") IN
    IF Len(time) > 1
    THEN LET days == time[1]
             time2 == split(time[3], ":")
             hours == fold_days(time2[1], days)
             minutes_seconds == join(":", Tail(time2))
         IN str(hours) \o ":" \o minutes_seconds
    ELSE LET time2 == split(time[1], ":")
             hours == time2[1]
             minutes_seconds == join(":", Tail(time2))
         IN hours \o ":" \o minutes_seconds

\* [hours, minutes, seconds] = [int(value) for value in time.split(":")]
time_to_timedelta(time) ==
    LET values == split(time, ":")
    IN timedelta(int(values[1]), int(values[2]), int(values[3]))

add_time(time1, time2) ==
    LET tdelta1 == time_to_timedelta(format_time(time1))
        tdelta2 == time_to_timedelta(format_time(time2))
        tdelta == timedelta_add(tdelta1, tdelta2)
    IN timedelta_to_time(tdelta)

\* well-formed "H:MM:SS" text of h hours, m minutes and s seconds: the
\* hours as a decimal numeral, minutes and seconds as two digits
TwoDigits(n) == CharAt("0123456789", n \div 10) \o CharAt("0123456789", n % 10)

RECURSIVE Numeral(_)
Numeral(n) ==
    IF n < 10 THEN CharAt("0123456789", n)
    ELSE Numeral(n \div 10) \o CharAt("0123456789", n % 10)

WellFormedTime(h, m, s) ==
    Numeral(h) \o ":" \o TwoDigits(m) \o ":" \o TwoDigits(s)

\* round-trip inputs: hours 0 .. MaxHours, minutes and seconds 0 .. 59
MaxHours == 49

CallRoundTrip ==
    /\ pc = "call"
    /\ args.fn = "round_trip"
    /\ LET tdelta == time_to_timedelta(args.time)
       IN ret' = Return([tdelta |-> tdelta, time |-> timedelta_to_time(tdelta)])
    /\ pc' = "done"
    /\ UNCHANGED args

InitRoundTrip ==
    /\ pc = "call"
    /\ ret = Pending
    /\ \E h \in 0 .. MaxHours, m \in 0 .. 59, s \in 0 .. 59 :
           args = [fn |-> "round_trip", time |-> WellFormedTime(h, m, s),
                   h |-> h, m |-> m, s |-> s]

NextRoundTrip == CallRoundTrip

SpecRoundTrip == InitRoundTrip /\ [][NextRoundTrip]_vars

RoundTripDone == pc = "done" /\ args.fn = "round_trip"

\* C4: for every well-formed "H:MM:SS" string s (hours may exceed 23),
\* timedelta_to_time(time_to_timedelta(s)) is s itself, and a day component
\* of the intermediate duration is folded into the hours as days times 24.
C4_RoundTrip ==
    RoundTripDone =>
        /\ ret.val.time = args.time
        /\ ret.val.tdelta.days * 86400 + ret.val.tdelta.seconds
               = args.h * 3600 + args.m * 60 + args.s
        /\ ret.val.tdelta.seconds < 86400
        /\ args.h = ret.val.tdelta.days * 24 + ret.val.tdelta.seconds \div 3600

\* C4 witness: a duration of two days and more went through the round trip
\* and came back as the text it was parsed from.
C4_Witness ==
    /\ RoundTripDone
    /\ args.time = "49:05:09"
    /\ ret.val.tdelta.days = 2
    /\ ret.val.time = "49:05:09"

\* add_time operands: M:SS and MM:SS out of the minute texts below, H:MM:SS
\* with the hours out of OperandHours
MaxAddHours == 25
OperandHours == {0, 1, 9, 23, MaxAddHours}
OperandMinutes1 == {0, 1, 9}
OperandTwoDigits == {0, 7, 30, 45, 59, 99}

\* an operand with the number of seconds it denotes
Operand(text, seconds) == [text |-> text, seconds |-> seconds]

Operands ==
    {Operand(Numeral(m) \o ":" \o TwoDigits(s), m * 60 + s) :
         m \in OperandMinutes1, s \in OperandTwoDigits}
    \cup {Operand(TwoDigits(m) \o ":" \o TwoDigits(s), m * 60 + s) :
         m \in OperandTwoDigits, s \in OperandTwoDigits}
    \cup {Operand(WellFormedTime(hms[1], hms[2], hms[3]),
                  hms[1] * 3600 + hms[2] * 60 + hms[3]) :
         hms \in OperandHours \X OperandTwoDigits \X OperandTwoDigits}

CallAddTime ==
    /\ pc = "call"
    /\ args.fn = "add_time"
    /\ ret' = Return(add_time(args.time1.text, args.time2.text))
    /\ pc' = "done"
    /\ UNCHANGED args

InitAddTime ==
    /\ pc = "call"
    /\ ret = Pending
    /\ \E t1 \in Operands, t2 \in Operands :
           args = [fn |-> "add_time", time1 |-> t1, time2 |-> t2]

NextAddTime == CallAddTime

SpecAddTime == InitAddTime /\ [][NextAddTime]_vars

AddTimeDone == pc = "done" /\ args.fn = "add_time"

\* the decimal value of a numeral, read digit by digit
DigitValue(c) == CHOOSE d \in 0 .. 9 : CharAt("0123456789", d) = c

RECURSIVE NumeralValue(_)
NumeralValue(t) ==
    IF Len(t) = 0 THEN 0
    ELSE 10 * NumeralValue(SubSeq(t, 1, Len(t) - 1))
             + DigitValue(SubSeq(t, Len(t), Len(t)))

\* C5: add_time of two operands of the forms M:SS, MM:SS or H:MM:SS returns
\* "H:MM:SS" text denoting the sum of the operands' seconds, minutes and
\* seconds carried below 60 and the hours free to exceed 23.
C5_AddTimeIsSum ==
    AddTimeDone =>
        LET c == split(ret.val, ":") IN
        /\ Len(c) = 3
        /\ isnumeric(c[1]) /\ (Len(c[1]) = 1 \/ CharAt(c[1], 0) # "0")
        /\ Len(c[2]) = 2 /\ isnumeric(c[2]) /\ NumeralValue(c[2]) < 60
        /\ Len(c[3]) = 2 /\ isnumeric(c[3]) /\ NumeralValue(c[3]) < 60
        /\ NumeralValue(c[1]) * 3600 + NumeralValue(c[2]) * 60
               + NumeralValue(c[3])
             = args.time1.seconds + args.time2.seconds

\* C5 witness: two operands whose seconds and minutes both carry and whose
\* sum passes one day were added.
C5_Witness ==
    /\ AddTimeDone
    /\ args.time1.text = "23:59:59"
    /\ args.time2.text = "23:07:07"
    /\ ret.val = "47:07:06"

\* the documented example: add_time("1:30", "0:45") is "0:02:15"
C5_WitnessExample ==
    /\ AddTimeDone
    /\ args.time1.text = "1:30"
    /\ args.time2.text = "0:45"
    /\ ret.val = "0:02:15"

=============================================================================
